---- MODULE Spec2Model ----
(***************************************************************************)
(* A model of pyfftw/builders/_utils.py: the axis/shape normalizer         *)
(* (_cook_nd_args), the shape resolver (_compute_array_shapes), the slicer *)
(* builder (_setup_input_slicers), the builder _Xfftn and the call-time    *)
(* adapter _FFTWWrapper.                                                   *)
(*                                                                         *)
(* Python values are modelled as follows.                                  *)
(*  - a tuple or list is a sequence; Python's 0-based index i of a         *)
(*    sequence of length n is legal iff -n <= i < n and denotes position   *)
(*    Pos(i, n) of the TLA+ sequence;                                      *)
(*  - an optional argument is a record [some, v] (None is some = FALSE);   *)
(*  - slice(None) is [full |-> TRUE], slice(0, k) is [full |-> FALSE,      *)
(*    stop |-> k];                                                         *)
(*  - a raised exception is a record [type, at].                           *)
(***************************************************************************)
EXTENDS Integers, Sequences, FiniteSets, TLC

\* ------------------------------------------------------------ bounds
\* Largest array rank, largest array dimension, largest requested size.
MaxRank == 2
MaxDim == 2
MaxSize == 3

\* ------------------------------------------------------------ Python values
None == [some |-> FALSE, v |-> <<>>]
Some(x) == [some |-> TRUE, v |-> x]

NoError == [type |-> "none", at |-> "none"]
Raise(t, where) == [type |-> t, at |-> where]

\* i is a legal Python index into a sequence of length n.
InRange(i, n) == (-n <= i) /\ (i < n)

\* The 1-based position Python's index i denotes in a sequence of length n.
Pos(i, n) == IF i >= 0 THEN i + 1 ELSE n + i + 1

\* range(lo, hi) as a sequence.
Range(lo, hi) == [k \in 1..(IF hi > lo THEN hi - lo ELSE 0) |-> lo + k - 1]

Min(x, y) == IF x < y THEN x ELSE y

\* ------------------------------------------------------------ _cook_nd_args
CookRaise(t) == [err |-> Raise(t, "_cook_nd_args"), s |-> <<>>, axes |-> <<>>]

\* Lines 267-273: the axes when none are passed.
DefaultAxes_Leading(a_shape, s) ==
  Range(0, IF s.some THEN Len(s.v) ELSE Len(a_shape))

DefaultAxes(a_shape, s) ==
  LET len_s == IF s.some THEN Len(s.v) ELSE Len(a_shape)
  IN  Range(-len_s, 0)

\* numpy.take(a.shape, axes): every index must be legal (mode='raise').
TakeOk(a_shape, axes) == \A n \in 1..Len(axes) : InRange(axes[n], Len(a_shape))
Take(a_shape, axes) == [n \in 1..Len(axes) |-> a_shape[Pos(axes[n], Len(a_shape))]]

\* Lines 275-279: the sizes when none are passed (the caller has checked
\* that neither take nor axes[-1] raises).
DefaultSizes(a_shape, axes, invreal) ==
  LET taken == Take(a_shape, axes)
  IN  IF invreal
      THEN [taken EXCEPT ![Len(taken)] =
              (a_shape[Pos(axes[Len(axes)], Len(a_shape))] - 1) * 2]
      ELSE taken

\* Lines 282-291: the two shape checks, then the result.
CookChecks_NoDimensionality(a_shape, s, axes) ==
  IF Len(s) # Len(axes) THEN CookRaise("ValueError")
  ELSE [err |-> NoError, s |-> s, axes |-> axes]

CookChecks(a_shape, s, axes) ==
  IF Len(s) # Len(axes) THEN CookRaise("ValueError")
  ELSE IF Len(s) > Len(a_shape) THEN CookRaise("ValueError")
  ELSE [err |-> NoError, s |-> s, axes |-> axes]

cook_nd_args(a_shape, s, axes, invreal) ==
  LET axes1 == IF axes.some THEN axes.v ELSE DefaultAxes(a_shape, s)
  IN  IF s.some THEN CookChecks(a_shape, s.v, axes1)
      ELSE IF ~TakeOk(a_shape, axes1) THEN CookRaise("IndexError")
      ELSE IF invreal /\ Len(axes1) = 0 THEN CookRaise("IndexError")
      ELSE CookChecks(a_shape, DefaultSizes(a_shape, axes1, invreal), axes1)

\* ------------------------------------------------------------ _compute_array_shapes
ShapesRaise(t) ==
  [err |-> Raise(t, "_compute_array_shapes"), input_shape |-> <<>>, output_shape |-> <<>>]

\* The loop of lines 230-232: shape[axis] = s[n] for each (n, axis), in order.
RECURSIVE AssignAxes(_, _, _, _)
AssignAxes(shape, s, axes, n) ==
  IF n > Len(axes) THEN shape
  ELSE AssignAxes([shape EXCEPT ![Pos(axes[n], Len(shape))] = s[n]], s, axes, n + 1)

\* No statement of the try block raises IndexError.
AxesOk(a_shape, s, axes, real) ==
  /\ \A n \in 1..Len(axes) : InRange(axes[n], Len(a_shape)) /\ n <= Len(s)
  /\ real => (Len(axes) > 0 /\ Len(s) > 0)

\* The compaction of line 235.
HalfPlusOne_NoPlus(n) == n \div 2

HalfPlusOne(n) == (n \div 2) + 1

\* Lines 241-246: which domain is the input and which the output.
OrientShapes_Forward(orig_domain_shape, fft_domain_shape, inverse) ==
  [err |-> NoError, input_shape |-> orig_domain_shape, output_shape |-> fft_domain_shape]

OrientShapes(orig_domain_shape, fft_domain_shape, inverse) ==
  IF inverse
  THEN [err |-> NoError, input_shape |-> fft_domain_shape,
        output_shape |-> orig_domain_shape]
  ELSE [err |-> NoError, input_shape |-> orig_domain_shape,
        output_shape |-> fft_domain_shape]

compute_array_shapes(a_shape, s, axes, inverse, real) ==
  IF ~AxesOk(a_shape, s, axes, real) THEN ShapesRaise("IndexError")
  ELSE
    LET orig_domain_shape == AssignAxes(a_shape, s, axes, 1)
        fft_domain_shape ==
          IF real
          THEN [orig_domain_shape EXCEPT ![Pos(axes[Len(axes)], Len(a_shape))] =
                  HalfPlusOne(s[Len(s)])]
          ELSE orig_domain_shape
    IN  OrientShapes(orig_domain_shape, fft_domain_shape, inverse)

\* ------------------------------------------------------------ _setup_input_slicers
\* slice(None) and slice(0, k).
SliceAll == [start |-> None, stop |-> None]
SliceTo(k) == [start |-> Some(0), stop |-> Some(k)]

\* The first index a slice selects on an axis of length len, and the one
\* after the last (numpy clips both to the axis).
Lo(sl, len) == IF sl.start.some THEN Min(sl.start.v, len) ELSE 0
Hi(sl, len) == IF sl.stop.some THEN Min(sl.stop.v, len) ELSE len
Extent(sl, len) == IF Hi(sl, len) > Lo(sl, len) THEN Hi(sl, len) - Lo(sl, len) ELSE 0

\* Lines 198-211, the source slicer of one axis.
UpdateSlicerAt_NoTruncate(a, i) == SliceTo(a)

UpdateSlicerAt(a, i) ==
  IF a > i THEN SliceTo(i)
  ELSE IF a < i THEN SliceTo(a)
  ELSE SliceTo(a)

\* Lines 198-211, the slicer of the internal array for one axis.
FFTWSlicerAt(a, i) ==
  IF a > i THEN SliceAll
  ELSE IF a < i THEN SliceTo(a)
  ELSE SliceAll

setup_input_slicers(a_shape, input_shape) ==
  [update_input_array_slicer |->
     [axis \in 1..Len(a_shape) |-> UpdateSlicerAt(a_shape[axis], input_shape[axis])],
   FFTW_array_slicer |->
     [axis \in 1..Len(a_shape) |-> FFTWSlicerAt(a_shape[axis], input_shape[axis])]]

\* ------------------------------------------------------------ arrays
\* An array is its shape and its elements, one per index tuple.
MaxOf(shape) ==
  CHOOSE m \in {shape[i] : i \in 1..Len(shape)} : \A i \in 1..Len(shape) : shape[i] <= m

Indices(shape) ==
  {idx \in [1..Len(shape) -> 0..(MaxOf(shape) - 1)] :
     \A i \in 1..Len(shape) : idx[i] < shape[i]}

Fill(shape, v) == [shape |-> shape, data |-> [idx \in Indices(shape) |-> v]]

NoArray == [shape |-> <<>>, data |-> <<>>]

\* The shape of array[slicer]: the slicer's axes sliced, the others whole.
SlicedShape(shape, slicer) ==
  [i \in 1..Len(shape) |->
     IF i <= Len(slicer) THEN Extent(slicer[i], shape[i]) ELSE shape[i]]

\* idx lies in the part of an array of this shape that the slicer selects.
InRegion(idx, slicer, shape) ==
  \A i \in 1..Len(slicer) :
    Lo(slicer[i], shape[i]) <= idx[i] /\ idx[i] < Hi(slicer[i], shape[i])

\* dest[dest_slicer] = src[src_slicer], for sliced shapes that agree.
CopyIn(dest, dest_slicer, src, src_slicer) ==
  [dest EXCEPT !.data =
     [idx \in DOMAIN dest.data |->
        IF InRegion(idx, dest_slicer, dest.shape)
        THEN src.data[[i \in 1..Len(idx) |->
                         idx[i] - Lo(dest_slicer[i], dest.shape[i])
                                + Lo(src_slicer[i], src.shape[i])]]
        ELSE dest.data[idx]]]

\* ------------------------------------------------------------ the engine
\* pyfftw.FFTW.__call__ as the builders see it: the plan is handed the
\* three arguments and, when no input array comes with them, executes on
\* the contents its bound input array has at that moment.
FFTWCall(input_array, output_array, normalise_idft, bound) ==
  [input_array |-> input_array,
   output_array |-> output_array,
   normalise_idft |-> normalise_idft,
   read |-> IF input_array.some THEN None ELSE Some(bound.data)]

\* Creating a plan may overwrite the input array it is bound to.
Planned(array, scribble) ==
  IF scribble.some THEN Fill(array.shape, scribble.v) ELSE array

\* ------------------------------------------------------------ _FFTWWrapper.__call__
CallResult(err, internal, engine) == [err |-> err, internal |-> internal, engine |-> engine]

\* Line 162 raises when the new input has fewer axes than the slicer.
Sliceable(input, slicer) == Len(input.shape) >= Len(slicer)

\* Lines 161-164: the shape check.
CallShapeMismatch_Unsliced(internal, input, input_array_slicer, FFTW_array_slicer) ==
  internal.shape # input.shape

CallShapeMismatch(internal, input, input_array_slicer, FFTW_array_slicer) ==
  SlicedShape(internal.shape, FFTW_array_slicer) #
    SlicedShape(input.shape, input_array_slicer)

\* Line 172: the input array handed to the plan.
SuperInputArray_Forwarded(input_array) == input_array

SuperInputArray(input_array) == None

FFTWWrapper_call(internal, input_array_slicer, FFTW_array_slicer, input_array, output_array, normalise_idft) ==
  IF ~input_array.some
  THEN CallResult(NoError, internal,
         <<FFTWCall(SuperInputArray(input_array), output_array, normalise_idft, internal)>>)
  ELSE IF ~Sliceable(input_array.v, input_array_slicer)
  THEN CallResult(Raise("IndexError", "__call__"), internal, <<>>)
  ELSE IF CallShapeMismatch(internal, input_array.v, input_array_slicer, FFTW_array_slicer)
  THEN CallResult(Raise("ValueError", "__call__"), internal, <<>>)
  ELSE LET updated == CopyIn(internal, FFTW_array_slicer, input_array.v, input_array_slicer)
       IN  CallResult(NoError, updated,
             <<FFTWCall(SuperInputArray(input_array), output_array, normalise_idft, updated)>>)

\* ------------------------------------------------------------ _Xfftn
valid_efforts == {"FFTW_ESTIMATE", "FFTW_MEASURE", "FFTW_PATIENT", "FFTW_EXHAUSTIVE"}

ShapeWork(p) ==
  LET c == cook_nd_args(p.a.shape, p.s, p.axes, p.inverse /\ p.real)
      r == compute_array_shapes(p.a.shape, c.s, c.axes, p.inverse, p.real)
  IN  IF c.err # NoError
      THEN [err |-> c.err, s |-> <<>>, axes |-> <<>>,
            input_shape |-> <<>>, output_shape |-> <<>>]
      ELSE [err |-> r.err, s |-> c.s, axes |-> c.axes,
            input_shape |-> r.input_shape, output_shape |-> r.output_shape]

\* Lines 58-64 with the effort check after the shape work.
XfftnShapes_EffortLast(p) ==
  IF ShapeWork(p).err # NoError THEN ShapeWork(p)
  ELSE IF p.planner_effort \notin valid_efforts
  THEN [err |-> Raise("ValueError", "_Xfftn"), s |-> <<>>, axes |-> <<>>,
        input_shape |-> <<>>, output_shape |-> <<>>]
  ELSE ShapeWork(p)

\* Lines 58-64: the effort check, then normalization and resolution.
XfftnShapes(p) ==
  IF p.planner_effort \notin valid_efforts
  THEN [err |-> Raise("ValueError", "_Xfftn"), s |-> <<>>, axes |-> <<>>,
        input_shape |-> <<>>, output_shape |-> <<>>]
  ELSE ShapeWork(p)

\* Lines 97-100.
Flags(p) ==
  IF ~p.auto_align_input THEN <<"FFTW_UNALIGNED", p.planner_effort>>
  ELSE <<p.planner_effort>>

Direction(p) == IF p.inverse THEN "FFTW_BACKWARD" ELSE "FFTW_FORWARD"

\* What _Xfftn leaves behind: the exception it raised (if any), the
\* resolved shapes, which buffers it created, whether it returned an
\* object and of which class, and the contents of the plan's input array.
Built(err, sh, p, a_copy, output_array, input_array, plan, returned, wrapper, sl, internal) ==
  [obj |-> [err |-> err, s |-> sh.s, axes |-> sh.axes,
            input_shape |-> sh.input_shape, output_shape |-> sh.output_shape,
            direction |-> Direction(p), flags |-> Flags(p), threads |-> p.threads,
            a_copy |-> a_copy, output_array |-> output_array,
            input_array |-> input_array, plan |-> plan,
            returned |-> returned, wrapper |-> wrapper, slicers |-> sl],
   internal |-> internal]

NoSlicers == [update_input_array_slicer |-> <<>>, FFTW_array_slicer |-> <<>>]

\* Lines 102-121: the array has not the required input shape.
\* nd.garbage is what n_byte_align_empty left in the new input array, and
\* nd.scribble what creating the plan wrote over it, if it wrote.
XfftnWrapped(p, sh, nd) ==
  LET sl == setup_input_slicers(p.a.shape, sh.input_shape)
      input_array == Planned(Fill(sh.input_shape, nd.garbage), nd.scribble)
      internal ==
        IF ~p.avoid_copy
        THEN CopyIn(Fill(sh.input_shape, 0), sl.FFTW_array_slicer,
                    p.a, sl.update_input_array_slicer)
        ELSE input_array
  IN  Built(NoError, sh, p, ~p.avoid_copy, TRUE, TRUE, TRUE, TRUE, TRUE, sl, internal)

\* Lines 123-136: the array is used as it is (n_byte_align may hand back an
\* aligned copy, which has the same shape and elements).
\* With avoid_copy line 134 reads a_copy, which line 93 never bound.
XfftnPlain(p, sh, nd) ==
  LET input_array == Planned(p.a, nd.scribble)
  IN  IF p.avoid_copy
      THEN Built(Raise("NameError", "_Xfftn"), sh, p, FALSE, TRUE, FALSE, TRUE,
                 FALSE, FALSE, NoSlicers, input_array)
      ELSE Built(NoError, sh, p, TRUE, TRUE, FALSE, TRUE, TRUE, FALSE, NoSlicers,
                 [input_array EXCEPT !.data = p.a.data])

Xfftn(p, nd) ==
  LET sh == XfftnShapes(p)
  IN  IF sh.err # NoError
      THEN Built(sh.err, sh, p, FALSE, FALSE, FALSE, FALSE, FALSE, FALSE, NoSlicers, NoArray)
      ELSE IF p.a.shape # sh.input_shape THEN XfftnWrapped(p, sh, nd)
      ELSE XfftnPlain(p, sh, nd)

\* ------------------------------------------------------------ input domains
\* Array dimensions: the smallest and the largest.  Requested sizes: the
\* smallest and the two largest (an even and an odd one).
Dims == {1, MaxDim}
Sizes == {1, MaxSize - 1, MaxSize}
Shapes == UNION {[1..r -> Dims] : r \in 1..MaxRank}
SizeArgs == {None} \cup {Some(x) : x \in UNION {[1..k -> Sizes] : k \in 0..MaxRank}}
AxesArgs == {None} \cup
            {Some(x) : x \in UNION {[1..k -> (-(MaxRank + 1))..MaxRank] : k \in 0..MaxRank}}

\* The three scenarios the documentation works through.
Scenarios ==
  { [a_shape |-> <<8>>, s |-> Some(<<4>>), axes |-> Some(<<0>>), inverse |-> FALSE, real |-> FALSE],
    [a_shape |-> <<4>>, s |-> Some(<<8>>), axes |-> Some(<<0>>), inverse |-> FALSE, real |-> FALSE],
    [a_shape |-> <<10>>, s |-> None, axes |-> None, inverse |-> FALSE, real |-> TRUE] }

ShapeInputs ==
  [a_shape : Shapes, s : SizeArgs, axes : AxesArgs, inverse : BOOLEAN, real : BOOLEAN]
    \cup Scenarios

\* The elements of the array passed to _Xfftn, and of an array passed to
\* the returned object later: nonzero, and different at every index.
RECURSIVE IndexCode(_, _)
IndexCode(idx, i) == IF i > Len(idx) THEN 0 ELSE idx[i] + 10 * IndexCode(idx, i + 1)
ArrayOf(shape, tag) ==
  [shape |-> shape, data |-> [idx \in Indices(shape) |-> 1000 * tag + 1 + IndexCode(idx, 1)]]

\* What uninitialized or overwritten memory may hold.
Garbage == {0, 255}

\* The arguments _Xfftn is called with: arrays of one and two dimensions,
\* sizes that truncate (1) and pad (3), and axes passed or not, in order or
\* not, repeated, and out of range.
BuildShapes == {<<1>>, <<2>>, <<1, 2>>, <<2, 1>>, <<2, 2>>}
BuildSizeArgs ==
  {None} \cup {Some(x) : x \in {<<1>>, <<3>>, <<1, 3>>, <<3, 3>>}}
BuildAxesArgs ==
  {None} \cup {Some(x) : x \in {<<0>>, <<-1>>, <<0, 1>>, <<0, 0>>, <<2>>}}

BuildInputs ==
  [a : {ArrayOf(sh, 1) : sh \in BuildShapes}, s : BuildSizeArgs, axes : BuildAxesArgs,
   planner_effort : {"FFTW_MEASURE", "FFTW_FASTEST"}, threads : {1},
   auto_align_input : BOOLEAN, avoid_copy : BOOLEAN,
   inverse : BOOLEAN, real : BOOLEAN]

BuildChoices == [garbage : Garbage, scribble : {None} \cup {Some(g) : g \in Garbage}]

\* The arrays a returned object is called with.
CallShapes == {<<1>>, <<2>>, <<1, 1>>, <<1, 2>>, <<2, 2>>}
CallInputs == {None} \cup {Some(ArrayOf(sh, 2)) : sh \in CallShapes}
CallOutputs == {None, Some("new_output")}

\* ------------------------------------------------------------ state
\* pc, args, cooked, shapes, slicers, inv_shapes: the shape functions applied
\* one after the other to one set of arguments.
\* bargs, obj, internal, last, ncalls: one call of _Xfftn (its arguments,
\* what it left behind, the contents of the plan's input array) and the
\* calls of the object it returned (the last one, and how many).
VARIABLES pc, args, cooked, shapes, slicers, inv_shapes,
          bargs, obj, internal, last, ncalls

vars == <<pc, args, cooked, shapes, slicers, inv_shapes, bargs, obj, internal, last, ncalls>>
shape_vars == <<pc, args, cooked, shapes, slicers, inv_shapes>>
adapter_vars == <<bargs, obj, internal, last, ncalls>>

NoCooked == [err |-> NoError, s |-> <<>>, axes |-> <<>>]
NoShapes == [err |-> NoError, input_shape |-> <<>>, output_shape |-> <<>>]
NoArgs == [a_shape |-> <<>>, s |-> None, axes |-> None, inverse |-> FALSE, real |-> FALSE]
NoLast == [input_array |-> None, output_array |-> None, normalise_idft |-> TRUE,
           err |-> NoError, engine |-> <<>>]

ShapesIdle ==
  /\ pc = "idle"
  /\ args = NoArgs
  /\ cooked = NoCooked
  /\ shapes = NoShapes
  /\ slicers = NoSlicers
  /\ inv_shapes = NoShapes

AdapterIdle ==
  /\ bargs = None
  /\ obj = None
  /\ internal = NoArray
  /\ last = NoLast
  /\ ncalls = 0

\* ---- the shape functions
InitShapes ==
  /\ pc = "args"
  /\ args \in ShapeInputs
  /\ cooked = NoCooked
  /\ shapes = NoShapes
  /\ slicers = NoSlicers
  /\ inv_shapes = NoShapes
  /\ AdapterIdle

Cook ==
  /\ pc = "args"
  /\ cooked' = cook_nd_args(args.a_shape, args.s, args.axes, args.inverse /\ args.real)
  /\ pc' = IF cooked'.err = NoError THEN "cooked" ELSE "raised"
  /\ UNCHANGED <<args, shapes, slicers, inv_shapes, adapter_vars>>

Resolve ==
  /\ pc = "cooked"
  /\ shapes' = compute_array_shapes(args.a_shape, cooked.s, cooked.axes, args.inverse, args.real)
  /\ pc' = IF shapes'.err = NoError THEN "resolved" ELSE "raised"
  /\ UNCHANGED <<args, cooked, slicers, inv_shapes, adapter_vars>>

Slicers ==
  /\ pc = "resolved"
  /\ slicers' = setup_input_slicers(args.a_shape, shapes.input_shape)
  /\ pc' = "sliced"
  /\ UNCHANGED <<args, cooked, shapes, inv_shapes, adapter_vars>>

\* The inverse real transform resolved on an array of the forward output shape.
InverseResolve ==
  /\ pc = "sliced"
  /\ args.real /\ ~args.inverse
  /\ inv_shapes' = compute_array_shapes(shapes.output_shape, cooked.s, cooked.axes, TRUE, TRUE)
  /\ pc' = "inverted"
  /\ UNCHANGED <<args, cooked, shapes, slicers, adapter_vars>>

NextShapes == Cook \/ Resolve \/ Slicers \/ InverseResolve

SpecShapes == InitShapes /\ [][NextShapes]_vars

\* ---- the builder and the object it returns
MaxCalls == 2

Init == ShapesIdle /\ AdapterIdle

\* One call of _Xfftn.
Build ==
  /\ ~bargs.some
  /\ \E p \in BuildInputs, nd \in BuildChoices :
       LET b == Xfftn(p, nd)
       IN  /\ bargs' = Some(p)
           /\ obj' = Some(b.obj)
           /\ internal' = b.internal
  /\ UNCHANGED <<last, ncalls, shape_vars>>

Returned == obj.some /\ obj.v.returned

\* One call of a returned _FFTWWrapper.
CallWrapper ==
  /\ Returned /\ obj.v.wrapper
  /\ ncalls < MaxCalls
  /\ \E input_array \in CallInputs, output_array \in CallOutputs, normalise_idft \in BOOLEAN :
       LET r == FFTWWrapper_call(internal, obj.v.slicers.update_input_array_slicer,
                            obj.v.slicers.FFTW_array_slicer,
                            input_array, output_array, normalise_idft)
       IN  /\ internal' = r.internal
           /\ last' = [input_array |-> input_array, output_array |-> output_array,
                       normalise_idft |-> normalise_idft,
                       err |-> r.err, engine |-> r.engine]
  /\ ncalls' = ncalls + 1
  /\ UNCHANGED <<bargs, obj, shape_vars>>

\* One call of a returned pyfftw.FFTW: nothing of the builders stands between
\* the caller and the plan, which takes an array of its input shape.
CallPlan ==
  /\ Returned /\ ~obj.v.wrapper
  /\ ncalls < MaxCalls
  /\ \E input_array \in {None, Some(ArrayOf(obj.v.input_shape, 2))},
        output_array \in CallOutputs, normalise_idft \in BOOLEAN :
       last' = [input_array |-> input_array, output_array |-> output_array,
                normalise_idft |-> normalise_idft, err |-> NoError,
                engine |-> <<FFTWCall(input_array, output_array, normalise_idft, internal)>>]
  /\ ncalls' = ncalls + 1
  /\ UNCHANGED <<bargs, obj, internal, shape_vars>>

Next == Build \/ CallWrapper \/ CallPlan

Spec == Init /\ [][Next]_vars

\* ------------------------------------------------------------ properties of the shape functions
Rank == Len(args.a_shape)
InvReal == args.inverse /\ args.real

\* _cook_nd_args returned, and _compute_array_shapes has been applied to
\* what it returned.
Cooked == pc # "args" /\ cooked.err = NoError
ResolveApplied == Cooked /\ pc # "cooked"
Resolved == pc \in {"resolved", "sliced", "inverted"}

AllAxesResolvable == \A n \in 1..Len(cooked.axes) : InRange(cooked.axes[n], Rank)
AxisPos(n) == Pos(cooked.axes[n], Rank)
LastAxis == Len(cooked.axes)
ListedDims == {AxisPos(n) : n \in 1..Len(cooked.axes)}
\* The last place of the axes list that names dimension d.
LastOcc(d) ==
  CHOOSE n \in 1..Len(cooked.axes) :
    AxisPos(n) = d /\ \A m \in (n + 1)..Len(cooked.axes) : AxisPos(m) # d

OrigShape == IF args.inverse THEN shapes.output_shape ELSE shapes.input_shape
FftShape == IF args.inverse THEN shapes.input_shape ELSE shapes.output_shape

RankAndUnlistedAxes ==
  /\ Len(shapes.input_shape) = Rank
  /\ Len(shapes.output_shape) = Rank
  /\ \A d \in (1..Rank) \ ListedDims :
       shapes.input_shape[d] = args.a_shape[d] /\ shapes.output_shape[d] = args.a_shape[d]
  /\ ~args.real => shapes.input_shape = shapes.output_shape

\* C1 as stated: for normalized (sizes, axes) with every axis resolvable,
\* _compute_array_shapes returns shapes of the array's rank that keep the
\* array's size on unlisted axes and have the requested size s[n] on every
\* listed axis axes[n], except s[-1]//2 + 1 on axes[-1] of the
\* transform-domain shape of a real transform; complex shapes are equal.
C1_AsStated ==
  (ResolveApplied /\ AllAxesResolvable) =>
    /\ shapes.err = NoError
    /\ RankAndUnlistedAxes
    /\ \A n \in 1..Len(cooked.axes) :
         /\ OrigShape[AxisPos(n)] = cooked.s[n]
         /\ FftShape[AxisPos(n)] =
              IF args.real /\ AxisPos(n) = AxisPos(LastAxis)
              THEN (cooked.s[LastAxis] \div 2) + 1
              ELSE cooked.s[n]

\* C1 amended: on a listed axis the shapes have the size paired with the
\* LAST occurrence of that axis in the axes list (the requested size when
\* the axes name distinct dimensions), and a real transform with an empty
\* axes list raises IndexError instead of returning.
C1_ShapesFollowLastOccurrence ==
  (ResolveApplied /\ AllAxesResolvable) =>
    IF args.real /\ Len(cooked.axes) = 0
    THEN pc = "raised" /\ shapes.err = Raise("IndexError", "_compute_array_shapes")
    ELSE /\ shapes.err = NoError
         /\ RankAndUnlistedAxes
         /\ \A d \in ListedDims :
              /\ OrigShape[d] = cooked.s[LastOcc(d)]
              /\ FftShape[d] =
                   IF args.real /\ d = AxisPos(LastAxis)
                   THEN (cooked.s[LastAxis] \div 2) + 1
                   ELSE cooked.s[LastOcc(d)]

\* A real inverse transform over two distinct axes, one given as a negative
\* index, with an odd last size, resolved.
C1_Witness ==
  /\ pc = "resolved"
  /\ args.real /\ args.inverse
  /\ Len(cooked.axes) = 2
  /\ AxisPos(1) # AxisPos(2)
  /\ cooked.axes[1] < 0
  /\ cooked.s[2] = 3
  /\ shapes.input_shape # shapes.output_shape

\* C2 as stated: after resolving the forward real transform and then the
\* inverse real transform on an array of the forward output shape, the
\* inverse input shape is the forward output shape and the inverse output
\* shape has the original size s[n] on every transformed axis axes[n].
C2_AsStated ==
  pc = "inverted" =>
    /\ inv_shapes.err = NoError
    /\ inv_shapes.input_shape = shapes.output_shape
    /\ \A n \in 1..Len(cooked.axes) : inv_shapes.output_shape[AxisPos(n)] = cooked.s[n]

\* C2 amended: the inverse output shape has, on every transformed axis, the
\* size paired with the last occurrence of that axis in the axes list.
C2_RoundTripLastOccurrence ==
  pc = "inverted" =>
    /\ inv_shapes.err = NoError
    /\ inv_shapes.input_shape = shapes.output_shape
    /\ \A d \in ListedDims : inv_shapes.output_shape[d] = cooked.s[LastOcc(d)]
    /\ \A d \in (1..Rank) \ ListedDims : inv_shapes.output_shape[d] = args.a_shape[d]

\* A round trip with an odd last size, whose halved axis differs from it.
C2_Witness ==
  /\ pc = "inverted"
  /\ cooked.s[LastAxis] = 3
  /\ shapes.output_shape[AxisPos(LastAxis)] = 2
  /\ inv_shapes.output_shape[AxisPos(LastAxis)] = 3

\* C3: on every axis, the source slicer selects from the user array as many
\* indices as the dest slicer selects from the internal array, namely
\* min(user, required) from index 0: source slice(0, required) and dest
\* slice(None) when the user axis is larger, both slice(0, user) when it is
\* smaller, and the full axis when they are equal.
C3_SlicerExtentsAgree ==
  pc \in {"sliced", "inverted"} =>
    \A i \in 1..Rank :
      LET a == args.a_shape[i]
          r == shapes.input_shape[i]
          src == slicers.update_input_array_slicer[i]
          dst == slicers.FFTW_array_slicer[i]
      IN  /\ Extent(src, a) = Extent(dst, r)
          /\ Extent(src, a) = (IF a < r THEN a ELSE r)
          /\ Lo(src, a) = 0 /\ Lo(dst, r) = 0
          /\ a > r => (src = SliceTo(r) /\ dst = SliceAll)
          /\ a < r => (src = SliceTo(a) /\ dst = SliceTo(a))
          /\ a = r => (Extent(src, a) = a /\ Extent(dst, r) = r)

\* One axis truncated and another padded in the same call.
C3_Witness ==
  /\ pc = "sliced"
  /\ Rank = 2
  /\ args.a_shape[1] > shapes.input_shape[1]
  /\ args.a_shape[2] < shapes.input_shape[2]

\* The axes _cook_nd_args works with, whether passed or defaulted.
EffectiveAxes == IF args.axes.some THEN args.axes.v ELSE DefaultAxes(args.a_shape, args.s)
SomeAxisOutOfRange == \E n \in 1..Len(EffectiveAxes) : ~InRange(EffectiveAxes[n], Rank)

\* C7: _cook_nd_args returns only with len(s) == len(axes) <= rank; with
\* sizes passed it raises ValueError exactly when the lengths differ or
\* exceed the rank and otherwise returns both sequences untruncated; an
\* axis outside [-rank, rank) raises IndexError in _cook_nd_args when the
\* sizes are absent, and in _compute_array_shapes when they are passed and
\* the length checks let them through; no resolved shape ever comes from
\* an out-of-range axis.
C7_LengthAndAxisErrors ==
  /\ Cooked => (Len(cooked.s) = Len(cooked.axes) /\ Len(cooked.s) <= Rank)
  /\ (pc # "args" /\ args.s.some) =>
       /\ (cooked.err = Raise("ValueError", "_cook_nd_args")) <=>
            (Len(args.s.v) # Len(EffectiveAxes) \/ Len(args.s.v) > Rank)
       /\ cooked.err.type \in {"none", "ValueError"}
       /\ cooked.err = NoError => (cooked.s = args.s.v /\ cooked.axes = EffectiveAxes)
  /\ (pc # "args" /\ ~args.s.some /\ SomeAxisOutOfRange) =>
       (pc = "raised" /\ cooked.err = Raise("IndexError", "_cook_nd_args"))
  /\ (pc # "args" /\ ~args.s.some /\ ~SomeAxisOutOfRange /\ ~(InvReal /\ Len(EffectiveAxes) = 0)) =>
       ((cooked.err = Raise("ValueError", "_cook_nd_args")) <=> Len(EffectiveAxes) > Rank)
  /\ (ResolveApplied /\ SomeAxisOutOfRange) =>
       (pc = "raised" /\ shapes.err = Raise("IndexError", "_compute_array_shapes"))
  /\ Resolved => ~SomeAxisOutOfRange

\* Sizes and axes of equal length pass the length checks, and an axis equal
\* to the rank is then rejected by _compute_array_shapes.
C7_Witness ==
  /\ pc = "raised"
  /\ args.s.some /\ args.axes.some
  /\ cooked.err = NoError
  /\ Len(cooked.axes) = 2
  /\ cooked.axes[2] = Rank
  /\ shapes.err.type = "IndexError"

Scenario3 ==
  [a_shape |-> <<10>>, s |-> None, axes |-> None, inverse |-> FALSE, real |-> TRUE]

\* C8: absent axes default to (-k, ..., -1), k = len(s) if sizes are passed
\* and the rank otherwise; absent sizes default to the array's sizes along
\* the axes, the last being (size - 1) * 2 for an inverse real transform;
\* passed sizes and axes are returned unchanged; shape (10,) with neither,
\* real forward, gives axes (-1,), sizes (10,) and output shape (6,).
C8_NormalizerDefaults ==
  /\ Cooked =>
       /\ ~args.axes.some =>
            LET k == IF args.s.some THEN Len(args.s.v) ELSE Rank
            IN  /\ Len(cooked.axes) = k
                /\ \A i \in 1..k : cooked.axes[i] = i - 1 - k
       /\ ~args.s.some =>
            /\ Len(cooked.s) = Len(cooked.axes)
            /\ \A i \in 1..Len(cooked.s) :
                 cooked.s[i] =
                   IF InvReal /\ i = Len(cooked.s)
                   THEN (args.a_shape[AxisPos(i)] - 1) * 2
                   ELSE args.a_shape[AxisPos(i)]
       /\ args.s.some => cooked.s = args.s.v
       /\ args.axes.some => cooked.axes = args.axes.v
  /\ (args = Scenario3 /\ pc # "args") =>
       /\ cooked = [err |-> NoError, s |-> <<10>>, axes |-> <<-1>>]
       /\ pc # "cooked" => (shapes.err = NoError /\ shapes.output_shape = <<6>>)

\* Neither sizes nor axes passed for an inverse real transform of a
\* two-dimensional array: both defaults applied, the last size doubled.
C8_Witness ==
  /\ pc = "resolved"
  /\ ~args.s.some /\ ~args.axes.some
  /\ InvReal
  /\ Rank = 2
  /\ cooked.axes = <<-2, -1>>
  /\ cooked.s[2] = 2
  /\ cooked.s[1] = 2

\* ------------------------------------------------------------ properties of the builder and its objects
A == bargs.v.a
Wrapped == Returned /\ obj.v.wrapper
Called == ncalls > 0
DestSlicer == obj.v.slicers.FFTW_array_slicer
SourceSlicer == obj.v.slicers.update_input_array_slicer

\* C4 as stated: whatever avoid_copy is, every element of a wrapper's
\* internal input array outside the dest slice is zero when _Xfftn returns
\* and after every call of the wrapper.
C4_AsStated ==
  Wrapped =>
    \A idx \in DOMAIN internal.data :
      ~InRegion(idx, DestSlicer, internal.shape) => internal.data[idx] = 0

\* C4, what the code does keep: the padding of a wrapper built without
\* avoid_copy is zero when _Xfftn returns and after every call.
C4_PaddingZeroUnlessAvoidCopy ==
  (Wrapped /\ ~bargs.v.avoid_copy) =>
    \A idx \in DOMAIN internal.data :
      ~InRegion(idx, DestSlicer, internal.shape) => internal.data[idx] = 0

\* C5: a call of a wrapper with a new input raises ValueError exactly when
\* the shape of new_input[source slice] differs from the shape of
\* internal[dest slice] (an input with fewer axes than the slicer cannot be
\* sliced at all and raises IndexError); an input at least as large as the
\* construction array on every axis is accepted; and when the call raises,
\* the internal array is unchanged and the plan has not been executed.
C5_CallShapeCheck ==
  [][ (Wrapped /\ ncalls' = ncalls + 1 /\ last'.input_array.some) =>
        LET new_input == last'.input_array.v
            sliceable == Len(new_input.shape) >= Len(A.shape)
            differ == \/ Len(new_input.shape) # Len(A.shape)
                      \/ \E i \in 1..Len(A.shape) :
                           Extent(SourceSlicer[i], new_input.shape[i]) #
                             Extent(DestSlicer[i], internal.shape[i])
        IN  /\ (last'.err = Raise("ValueError", "__call__")) <=> (sliceable /\ differ)
            /\ (last'.err = Raise("IndexError", "__call__")) <=> ~sliceable
            /\ last'.err.type \in {"none", "ValueError", "IndexError"}
            /\ (/\ Len(new_input.shape) = Len(A.shape)
                /\ \A i \in 1..Len(A.shape) : new_input.shape[i] >= A.shape[i])
                 => last'.err = NoError
            /\ last'.err # NoError => (internal' = internal /\ last'.engine = <<>>)
            /\ last'.err = NoError =>
                 \A idx \in DOMAIN internal.data :
                   internal'.data[idx] =
                     IF InRegion(idx, DestSlicer, internal.shape)
                     THEN new_input.data[idx] ELSE internal.data[idx] ]_vars

\* A wrapper accepted an input larger than the array it was built from, and
\* then rejected one that is too small.
C5_Witness ==
  /\ Wrapped /\ ncalls = 2
  /\ last.err = Raise("ValueError", "__call__")
  /\ last.engine = <<>>
  /\ \E idx \in DOMAIN internal.data : internal.data[idx] > 2000
  /\ A.shape = <<1, 2>>
  /\ internal.shape = <<3, 2>>

\* C6 as stated: when the array has the required input shape, _Xfftn
\* returns a plan whether avoid_copy is set or not; without avoid_copy the
\* input array holds the original data after planning; with avoid_copy no
\* snapshot is taken and none is copied back.
C6_AsStated ==
  (obj.some /\ obj.v.input_shape = A.shape) =>
    /\ obj.v.err = NoError
    /\ obj.v.returned /\ ~obj.v.wrapper /\ obj.v.plan
    /\ ~obj.v.a_copy <=> bargs.v.avoid_copy
    /\ ~bargs.v.avoid_copy => internal = A

\* C6, what the code does: without avoid_copy the plan is returned with the
\* original data in its input array; with avoid_copy _Xfftn raises
\* NameError after the plan and the output array were created.
C6_MatchedPathOutcome ==
  (obj.some /\ obj.v.input_shape = A.shape) =>
    IF bargs.v.avoid_copy
    THEN /\ obj.v.err = Raise("NameError", "_Xfftn")
         /\ ~obj.v.returned /\ obj.v.plan /\ obj.v.output_array /\ ~obj.v.a_copy
    ELSE /\ obj.v.err = NoError
         /\ obj.v.returned /\ ~obj.v.wrapper /\ obj.v.plan /\ obj.v.a_copy
         /\ internal = A

ConfigError == Raise("ValueError", "_Xfftn")
ShapeError == Raise("ValueError", "_cook_nd_args")
AxisErrors == {Raise("IndexError", "_cook_nd_args"), Raise("IndexError", "_compute_array_shapes")}

\* C9: an unrecognized planner effort is rejected with the configuration
\* error whatever the sizes and axes are (so before any shape or axis
\* error of the same call), and when _Xfftn raises a configuration, shape
\* or axis error it has created no snapshot, no output array, no internal
\* input array and no plan, and returns nothing.
C9_ErrorsBeforeBuffers ==
  obj.some =>
    /\ (bargs.v.planner_effort \notin {"FFTW_ESTIMATE", "FFTW_MEASURE",
                                        "FFTW_PATIENT", "FFTW_EXHAUSTIVE"})
         <=> (obj.v.err = ConfigError)
    /\ obj.v.err \in ({ConfigError, ShapeError} \cup AxisErrors) =>
         /\ ~obj.v.a_copy /\ ~obj.v.output_array /\ ~obj.v.input_array /\ ~obj.v.plan
         /\ ~obj.v.returned
         /\ internal = NoArray

\* An unrecognized effort together with sizes and axes of different lengths.
C9_Witness ==
  /\ obj.some
  /\ bargs.v.planner_effort = "FFTW_FASTEST"
  /\ bargs.v.s = Some(<<1, 3>>) /\ bargs.v.axes = Some(<<0>>)
  /\ obj.v.err = ConfigError

\* C10 as stated: on every successful call of any object _Xfftn returns,
\* the plan is executed exactly once, new_input is not forwarded to it, and
\* new_output and normalise_idft are passed through unchanged.
C10_AsStated ==
  (Returned /\ Called /\ last.err = NoError) =>
    /\ Len(last.engine) = 1
    /\ last.engine[1].input_array = None
    /\ last.engine[1].output_array = last.output_array
    /\ last.engine[1].normalise_idft = last.normalise_idft

\* C10 amended: that holds of a returned _FFTWWrapper, whose plan moreover
\* executes on the internal array as the copy-in left it; on the
\* matched-shape path _Xfftn returns the plan itself, which is handed the
\* caller's three arguments, new_input included.
C10_WrapperExecutesOnceAfterCopy ==
  (Returned /\ Called) =>
    IF last.err # NoError THEN last.engine = <<>>
    ELSE /\ Len(last.engine) = 1
         /\ last.engine[1].output_array = last.output_array
         /\ last.engine[1].normalise_idft = last.normalise_idft
         /\ IF obj.v.wrapper
            THEN /\ last.engine[1].input_array = None
                 /\ last.engine[1].read = Some(internal.data)
                 /\ last.input_array.some =>
                      \A idx \in DOMAIN internal.data :
                        InRegion(idx, DestSlicer, internal.shape) =>
                          internal.data[idx] = last.input_array.v.data[idx]
            ELSE last.engine[1].input_array = last.input_array

\* A wrapper called with a new input, a new output and no normalisation.
C10_Witness ==
  /\ Wrapped /\ Called
  /\ last.err = NoError
  /\ last.input_array.some
  /\ last.output_array.some
  /\ ~last.normalise_idft
  /\ last.engine[1].read = Some(internal.data)
  /\ \E idx \in DOMAIN internal.data : internal.data[idx] = 0

====
